---- MODULE Spec2Model ----
(***************************************************************************)
(* Model of the aios-core install / update / sync commands                 *)
(* (.aios-core/cli/commands/{install,update,sync}/index.js).               *)
(*                                                                         *)
(* Two working directories are modelled: the hub, whose .aios-core/ IS the *)
(* package root the commands copy from, and a target project.  A directory *)
(* is a record holding its .aios-core/ tree, the install manifest, and its *)
(* .claude/ tree.  A tree maps relative paths (sequences of segments) to   *)
(* file contents; sub-directories exist exactly when a file lies below     *)
(* them, the three directories the code tests with existsSync carry an     *)
(* explicit flag.                                                          *)
(***************************************************************************)
EXTENDS Integers, Sequences, FiniteSets, TLC

VARIABLES fs, pc, cmd, status, exitCode, runs, loc, pre, prev, hist

vars == <<fs, pc, cmd, status, exitCode, runs, loc, pre, prev, hist>>

(* Number of command invocations explored in one behaviour. *)
MaxRuns == 2

----------------------------------------------------------------------------
(* File contents *)

Absent == "<absent>"
Empty == ""

(* JavaScript truthiness of a value that is null (no file) or a string. *)
Truthy(c) == c \notin {Absent, Empty}

----------------------------------------------------------------------------
(* Program constants *)

LOCAL_CONFIGS == {<<"core-config.yaml">>, <<"local-config.yaml">>, <<"install-manifest.yaml">>}

COPY_EXCLUDE == {"node_modules", ".DS_Store", "claude-config", "package-lock.json"}

SYNC_ITEMS == <<"commands", "rules", "hooks", "CLAUDE.md", "settings.json">>

NEVER_SYNC == {"settings.local.json"}

ManifestPath == <<"install-manifest.yaml">>

ClaudeMdPath == <<"CLAUDE.md">>

SettingsLocalPath == <<"settings.local.json">>

SettingsPath == <<"settings.json">>

Catalogs == <<"commands", "rules", "hooks">>

----------------------------------------------------------------------------
(* Paths *)

Sites == {"hub", "project"}

(* getPackageRoot(): the hub's .aios-core/ directory. *)
PackageSite == "hub"

ClaudePaths ==
  { <<"commands", "a.md">>, <<"commands", "old.md">>, <<"commands", "settings.local.json">>,
    <<"rules", "r.md">>, <<"rules", "settings.local.json">>,
    <<"hooks", "h.js">>,
    <<"settings.json">>, <<"CLAUDE.md">>, <<"settings.local.json">> }

ConfigPaths == LOCAL_CONFIGS \ {ManifestPath}

FrameworkPaths ==
  ConfigPaths \cup
  { <<"package.json">>, <<"agents", "dev.md">>, <<"node_modules", "m.js">>,
    <<"lib", ".DS_Store">>, <<"package-lock.json">> }

ClaudeConfigPaths == { <<"claude-config">> \o q : q \in ClaudePaths }

AiosPaths == FrameworkPaths \cup ClaudeConfigPaths

(* path.basename *)
Basename(p) == p[Len(p)]

(* relative.split(path.sep)[0] *)
TopLevel(p) == p[1]

(* The path itself and every directory above it, below the copy root. *)
Prefixes(p) == { SubSeq(p, 1, k) : k \in 1..Len(p) }

----------------------------------------------------------------------------
(* Trees *)

EmptyTree(paths) == [p \in paths |-> Absent]

(* fs.existsSync(path.join(root, item)) for a top-level item of a tree *)
ExistsItem(tree, item) == \E p \in DOMAIN tree : TopLevel(p) = item /\ tree[p] # Absent

(* fs.statSync(path.join(root, item)).isDirectory() *)
IsDirectory(tree, item) == \E p \in DOMAIN tree : TopLevel(p) = item /\ Len(p) > 1 /\ tree[p] # Absent

(* Every file and directory path of a tree *)
Entries(tree) == UNION { Prefixes(p) : p \in DOMAIN tree }

(* Paths fs.copy(src, dest, {filter, overwrite}) writes; keep is the set of  *)
(* entries the filter accepts.  A source file is copied when the filter      *)
(* accepts it and every directory above it, and the destination is free or   *)
(* overwrite is set.                                                         *)
CopiedPaths(src, dest, keep, overwrite) ==
  { p \in DOMAIN src : /\ src[p] # Absent
                       /\ Prefixes(p) \subseteq keep
                       /\ (overwrite \/ dest[p] = Absent) }

(* fs.copy of one tree onto another *)
CopyTree(src, dest, keep, overwrite) ==
  [p \in DOMAIN dest |-> IF p \in CopiedPaths(src, dest, keep, overwrite) THEN src[p] ELSE dest[p]]

(* fs.remove of a top-level item of a tree *)
RemoveItem(tree, item) == [p \in DOMAIN tree |-> IF TopLevel(p) = item THEN Absent ELSE tree[p]]

(* fs.copy without a filter *)
KeepAll(tree) == Entries(tree)

(* The claude-config/ sub-tree of an .aios-core/ tree, as a .claude-shaped tree *)
ClaudeConfigOf(aios) == [q \in ClaudePaths |-> aios[<<"claude-config">> \o q]]

(* An .aios-core/ tree with its claude-config/ sub-tree replaced *)
WithClaudeConfig(aios, cc) ==
  [p \in AiosPaths |-> IF TopLevel(p) = "claude-config" THEN cc[Tail(p)] ELSE aios[p]]

----------------------------------------------------------------------------
(* The install manifest (install-manifest.yaml) *)

(* A file that is not a YAML mapping: missing, empty, or not parseable. *)
RawManifest(kind) ==
  [kind |-> kind, keys |-> {}, installed_at |-> 0, updated_at |-> 0, version |-> "",
   previous_version |-> "", source |-> "", force |-> FALSE, skip_deps |-> FALSE]

NoManifest == RawManifest("absent")

PackageRootPath == "/hub/.aios-core"

(* fs.existsSync(manifestPath) *)
ManifestExists(m) == m.kind # "absent"

(* the file's text, read as a string, is truthy (a non-empty string) *)
ManifestTruthy(m) == m.kind \in {"garbage", "map"}

(* yaml.load(text) throws on text that is not YAML *)
YamlLoadThrows(m) == m.kind = "garbage"

(* yaml.load(text) is an object (a mapping); it is undefined for empty text *)
YamlLoadIsObject(m) == m.kind = "map"

(* JSON.parse(package.json).version; "" stands for undefined or a failed read *)
JsonVersion(c) == IF c \in {"1.0.0", "1.2.0"} THEN c ELSE ""

getPackageVersion(pkgAios) ==
  IF JsonVersion(pkgAios[<<"package.json">>]) # "" THEN JsonVersion(pkgAios[<<"package.json">>]) ELSE "0.0.0"

----------------------------------------------------------------------------
(* State *)

SiteRec(aiosDir, aios, manifest, ccDir, claudeDir, claude) ==
  [aiosDir |-> aiosDir, aios |-> aios, manifest |-> manifest, ccDir |-> ccDir,
   claudeDir |-> claudeDir, claude |-> claude]

NoLocals ==
  [currentVersion |-> "", backups |-> EmptyTree(ConfigPaths), manifestBackup |-> NoManifest,
   claudeMdBackup |-> Absent, settingsLocalBackup |-> Absent]

NoCmd == [name |-> "none", cwd |-> "project", force |-> FALSE]

Summary(c, st, m) == [name |-> c.name, cwd |-> c.cwd, force |-> c.force, status |-> st, manifest |-> m]

(* Bookkeeping common to the start of every command: the clock advances,   *)
(* the directory state is remembered, the finished command is summarised.  *)
Begin(name, cwd, force) ==
  /\ pc = "idle"
  /\ runs < MaxRuns
  /\ runs' = runs + 1
  /\ pre' = fs
  /\ prev' = Summary(cmd, status, fs[cmd.cwd].manifest)
  /\ cmd' = [name |-> name, cwd |-> cwd, force |-> force]

(* process.exit(1) after a failed precondition check: nothing was written *)
ExitPrecondition ==
  /\ status' = "precondition"
  /\ exitCode' = 1
  /\ pc' = "idle"
  /\ UNCHANGED <<fs, loc, hist>>

----------------------------------------------------------------------------
(* sync *)

(* filter of the directory copy in syncAction *)
SyncFilter(q) == Basename(q) \notin NEVER_SYNC /\ Basename(q) # ".DS_Store"

SyncKept(tree) == { q \in Entries(tree) : SyncFilter(q) }

OnlyItem(tree, item) == [p \in DOMAIN tree |-> IF TopLevel(p) = item THEN tree[p] ELSE Absent]

(* Paths one iteration of the SYNC_ITEMS loop copies into claude-config/ *)
SyncItemCopied(claude, cc, item) ==
  IF ~ExistsItem(claude, item) THEN {}
  ELSE IF IsDirectory(claude, item)
       THEN CopiedPaths(OnlyItem(claude, item), RemoveItem(cc, item), SyncKept(claude), TRUE)
       ELSE CopiedPaths(OnlyItem(claude, item), cc, KeepAll(claude), TRUE)

(* One iteration of the SYNC_ITEMS loop *)
SyncItem(claude, cc, item) ==
  IF ~ExistsItem(claude, item) THEN cc
  ELSE IF IsDirectory(claude, item)
       THEN CopyTree(OnlyItem(claude, item), RemoveItem(cc, item), SyncKept(claude), TRUE)
       ELSE CopyTree(OnlyItem(claude, item), cc, KeepAll(claude), TRUE)

RECURSIVE SyncItems(_, _, _)
SyncItems(claude, cc, items) ==
  IF items = <<>> THEN cc
  ELSE SyncItems(claude, SyncItem(claude, cc, Head(items)), Tail(items))

(* Step 5 of syncAction: remove path.join(claudeConfigDir, item) for NEVER_SYNC *)
RemoveNeverSync(cc) == [p \in DOMAIN cc |-> IF Len(p) = 1 /\ p[1] \in NEVER_SYNC THEN Absent ELSE cc[p]]

SyncResult(claude, cc) == RemoveNeverSync(SyncItems(claude, cc, SYNC_ITEMS))

SyncAction(cwd) ==
  /\ Begin("sync", cwd, FALSE)
  /\ IF ~fs[cwd].claudeDir \/ ~fs[cwd].aiosDir
     THEN ExitPrecondition
     ELSE LET s == fs[cwd]
              cc == ClaudeConfigOf(s.aios)
              wrote == \E i \in 1..Len(SYNC_ITEMS) :
                         \E p \in SyncItemCopied(s.claude, cc, SYNC_ITEMS[i]) : Basename(p) \in NEVER_SYNC
          IN /\ fs' = [fs EXCEPT ![cwd].aios = WithClaudeConfig(s.aios, SyncResult(s.claude, cc)),
                                 ![cwd].ccDir = TRUE]
             /\ hist' = [hist EXCEPT !.wroteNeverSync = @ \/ wrote]
             /\ status' = "ok"
             /\ exitCode' = 0
             /\ pc' = "idle"
             /\ UNCHANGED loc

----------------------------------------------------------------------------
(* install *)

(* filter of the framework copy in installAction *)
InstallFilter(q) == TopLevel(q) \notin COPY_EXCLUDE

InstallKept(tree) == { q \in Entries(tree) : InstallFilter(q) }

(* The framework copy applied to install-manifest.yaml, should the package hold one *)
CopyManifest(srcM, destM, keep, overwrite) ==
  IF ManifestExists(srcM) /\ keep /\ (overwrite \/ ~ManifestExists(destM)) THEN srcM ELSE destM

(* The merge branch copying with overwrite, like the force branch *)
InstallClaudeOverwrite_Always(claudeDir, force) == TRUE

(* Step 4 of installAction: the three destination states of .claude/ *)
InstallClaudeOverwrite(claudeDir, force) ==
  IF ~claudeDir THEN TRUE
  ELSE IF force THEN TRUE
  ELSE FALSE

(* A successful `npm install --production` in the target's .aios-core/ *)
NpmInstall(aios) ==
  [aios EXCEPT ![<<"node_modules", "m.js">>] = "npm", ![<<"package-lock.json">>] = "npm"]

(* An install manifest that carries the update-only key previous_version *)
InstallManifest_WithPrevious(now, version, force, skipDeps) ==
  [kind |-> "map", keys |-> {"installed_at", "version", "previous_version", "source", "force", "skip_deps"},
   installed_at |-> now, updated_at |-> 0, version |-> version, previous_version |-> "unknown",
   source |-> PackageRootPath, force |-> force, skip_deps |-> skipDeps]

(* Step 6 of installAction *)
InstallManifest(now, version, force, skipDeps) ==
  [kind |-> "map", keys |-> {"installed_at", "version", "source", "force", "skip_deps"},
   installed_at |-> now, updated_at |-> 0, version |-> version, previous_version |-> "",
   source |-> PackageRootPath, force |-> force, skip_deps |-> skipDeps]

(* installAction without the source-directory check *)
InSourceDirectory_Never(cwd) == FALSE

(* path.resolve(cwd) is the package root or its parent *)
InSourceDirectory(cwd) == cwd = PackageSite

InstallAction(cwd, force, deps) ==
  /\ Begin("install", cwd, force)
  /\ IF fs[cwd].aiosDir /\ ~force
     THEN ExitPrecondition
     ELSE IF InSourceDirectory(cwd)
     THEN ExitPrecondition
     ELSE LET pkg == fs[PackageSite]
              t == fs[cwd]
              cc == ClaudeConfigOf(pkg.aios)
              ow == InstallClaudeOverwrite(t.claudeDir, force)
              aios1 == CopyTree(pkg.aios, t.aios, InstallKept(pkg.aios), force)
              aios2 == IF deps = "ok" THEN NpmInstall(aios1) ELSE aios1
              claude1 == IF pkg.ccDir THEN CopyTree(cc, t.claude, KeepAll(cc), ow) ELSE t.claude
              read == pkg.ccDir /\ \E p \in CopiedPaths(cc, t.claude, KeepAll(cc), ow) : Basename(p) \in NEVER_SYNC
          IN /\ fs' = [fs EXCEPT ![cwd] =
                         SiteRec(TRUE, aios2,
                                 InstallManifest(runs', getPackageVersion(pkg.aios), force, deps = "skip"),
                                 t.ccDir, t.claudeDir \/ pkg.ccDir, claude1)]
             /\ hist' = [hist EXCEPT !.readNeverSync = @ \/ read]
             /\ status' = "ok"
             /\ exitCode' = 0
             /\ pc' = "idle"
             /\ UNCHANGED loc

----------------------------------------------------------------------------
(* update *)

(* The update filter without the COPY_EXCLUDE test *)
UpdateFilter_NoExclude(force, q) == force \/ q \notin LOCAL_CONFIGS

(* filter of the framework copy in updateAction *)
UpdateFilter(force, q) ==
  /\ TopLevel(q) \notin COPY_EXCLUDE
  /\ (force \/ q \notin LOCAL_CONFIGS)

UpdateKept(force, tree) == { q \in Entries(tree) : UpdateFilter(force, q) }

(* Step 2 never reading the manifest *)
ReadCurrentVersion_Unknown(m) == "unknown"

(* Step 2 of updateAction: manifest.version || 'unknown', 'unknown' when the *)
(* file is missing or reading it throws                                      *)
ReadCurrentVersion(m) ==
  IF ManifestExists(m) /\ YamlLoadIsObject(m) /\ "version" \in m.keys /\ m.version # ""
  THEN m.version
  ELSE "unknown"

(* One of the three remove-then-copy blocks of step 5 *)
ReplaceCatalog(cc, claude, item) ==
  IF ExistsItem(cc, item)
  THEN CopyTree(OnlyItem(cc, item), RemoveItem(claude, item), KeepAll(cc), TRUE)
  ELSE claude

RECURSIVE ReplaceCatalogs(_, _, _)
ReplaceCatalogs(cc, claude, items) ==
  IF items = <<>> THEN claude
  ELSE ReplaceCatalogs(cc, ReplaceCatalog(cc, claude, Head(items)), Tail(items))

(* settings.json is copied over the target's whenever the package has one *)
UpdateSettings(cc, claude) ==
  IF cc[SettingsPath] # Absent THEN [claude EXCEPT ![SettingsPath] = cc[SettingsPath]] ELSE claude

(* !claudeMdBackup || claudeMdBackup === templateContent || options.force *)
ShouldUpdateClaudeMd(claudeMdBackup, templateContent, force) ==
  \/ ~Truthy(claudeMdBackup)
  \/ claudeMdBackup = templateContent
  \/ force

UpdateClaudeMd(cc, claude, claudeMdBackup, force) ==
  IF cc[ClaudeMdPath] # Absent /\ ShouldUpdateClaudeMd(claudeMdBackup, cc[ClaudeMdPath], force)
  THEN [claude EXCEPT ![ClaudeMdPath] = cc[ClaudeMdPath]]
  ELSE claude

(* Step 5 of updateAction *)
UpdateClaude(cc, claude, claudeMdBackup, force) ==
  UpdateClaudeMd(cc, UpdateSettings(cc, ReplaceCatalogs(cc, claude, Catalogs)), claudeMdBackup, force)

(* Step 6 without the write-back loop *)
RestoreConfigs_Skip(aios, backups) == aios

(* Step 6 of updateAction: every backed-up file is written back *)
RestoreConfigs(aios, backups) ==
  [p \in DOMAIN aios |-> IF p \in DOMAIN backups /\ backups[p] # Absent THEN backups[p] ELSE aios[p]]

RestoreManifest(m, manifestBackup) == IF ManifestExists(manifestBackup) THEN manifestBackup ELSE m

RestoreSettingsLocal(claude, settingsLocalBackup) ==
  IF Truthy(settingsLocalBackup) THEN [claude EXCEPT ![SettingsLocalPath] = settingsLocalBackup] ELSE claude

(* Step 7 throws: yaml.load rejects the backed-up text, or the manifest it   *)
(* yields has no installed_at and yaml.dump rejects the undefined value      *)
WriteManifestThrows(manifestBackup) ==
  /\ ManifestTruthy(manifestBackup)
  /\ \/ YamlLoadThrows(manifestBackup)
     \/ "installed_at" \notin manifestBackup.keys

(* Step 7 stamping installed_at with the current time on every update *)
UpdateManifest_FreshInstalledAt(manifestBackup, now, version, currentVersion) ==
  [kind |-> "map", keys |-> {"installed_at", "updated_at", "version", "previous_version", "source"},
   installed_at |-> now, updated_at |-> now, version |-> version, previous_version |-> currentVersion,
   source |-> PackageRootPath, force |-> FALSE, skip_deps |-> FALSE]

(* Step 7 of updateAction *)
UpdateManifest(manifestBackup, now, version, currentVersion) ==
  [kind |-> "map", keys |-> {"installed_at", "updated_at", "version", "previous_version", "source"},
   installed_at |-> IF ManifestTruthy(manifestBackup) THEN manifestBackup.installed_at ELSE now,
   updated_at |-> now, version |-> version, previous_version |-> currentVersion,
   source |-> PackageRootPath, force |-> FALSE, skip_deps |-> FALSE]

(* run() logging the error and letting the command go on to its summary *)
Fatal_Continue ==
  /\ status' = "fatal"
  /\ exitCode' = 1
  /\ pc' = "Summarize"
  /\ loc' = NoLocals

(* The error reaches run(), which prints it and calls process.exit(1) *)
Fatal ==
  /\ status' = "fatal"
  /\ exitCode' = 1
  /\ pc' = "idle"
  /\ loc' = NoLocals

(* Steps 1 and 2: verify the installation, read the current manifest *)
UpdateVerify(cwd, force) ==
  /\ Begin("update", cwd, force)
  /\ IF ~fs[cwd].aiosDir
     THEN ExitPrecondition
     ELSE /\ loc' = [NoLocals EXCEPT !.currentVersion = ReadCurrentVersion(fs[cwd].manifest)]
          /\ status' = "running"
          /\ exitCode' = -1
          /\ pc' = "Backup"
          /\ UNCHANGED <<fs, hist>>

(* Step 3: back up the local configs, CLAUDE.md and settings.local.json *)
UpdateBackup ==
  /\ pc = "Backup"
  /\ LET t == fs[cmd.cwd]
     IN loc' = [loc EXCEPT !.backups = [p \in ConfigPaths |-> t.aios[p]],
                           !.manifestBackup = t.manifest,
                           !.claudeMdBackup = t.claude[ClaudeMdPath],
                           !.settingsLocalBackup = t.claude[SettingsLocalPath]]
  /\ pc' = "Sync"
  /\ UNCHANGED <<fs, cmd, status, exitCode, runs, pre, prev, hist>>

(* Steps 4 and 5: copy the framework, update .claude/ *)
UpdateSync ==
  /\ pc = "Sync"
  /\ LET pkg == fs[PackageSite]
         t == fs[cmd.cwd]
         cc == ClaudeConfigOf(pkg.aios)
         aios1 == CopyTree(pkg.aios, t.aios, UpdateKept(cmd.force, pkg.aios), TRUE)
         manifest1 == CopyManifest(pkg.manifest, t.manifest, UpdateFilter(cmd.force, ManifestPath), TRUE)
         claude1 == IF pkg.ccDir THEN UpdateClaude(cc, t.claude, loc.claudeMdBackup, cmd.force) ELSE t.claude
         read == /\ pkg.ccDir
                 /\ \E p \in ClaudePaths : /\ TopLevel(p) \in {Catalogs[i] : i \in 1..Len(Catalogs)}
                                           /\ Basename(p) \in NEVER_SYNC
                                           /\ cc[p] # Absent
     IN /\ fs' = [fs EXCEPT ![cmd.cwd] =
                    SiteRec(TRUE, aios1, manifest1, t.ccDir,
                            t.claudeDir \/ \E p \in ClaudePaths : claude1[p] # Absent, claude1)]
        /\ hist' = [hist EXCEPT !.readNeverSync = @ \/ read]
  /\ pc' = "Restore"
  /\ UNCHANGED <<cmd, status, exitCode, runs, loc, pre, prev>>

(* Step 6: restore the local configs and settings.local.json *)
UpdateRestore ==
  /\ pc = "Restore"
  /\ LET t == fs[cmd.cwd]
     IN fs' = [fs EXCEPT ![cmd.cwd].aios = RestoreConfigs(t.aios, loc.backups),
                         ![cmd.cwd].manifest = RestoreManifest(t.manifest, loc.manifestBackup),
                         ![cmd.cwd].claude = RestoreSettingsLocal(t.claude, loc.settingsLocalBackup)]
  /\ pc' = "WriteManifest"
  /\ UNCHANGED <<cmd, status, exitCode, runs, loc, pre, prev, hist>>

(* Step 7: write the manifest *)
UpdateWriteManifest ==
  /\ pc = "WriteManifest"
  /\ IF WriteManifestThrows(loc.manifestBackup)
     THEN Fatal /\ UNCHANGED fs
     ELSE /\ fs' = [fs EXCEPT ![cmd.cwd].manifest =
                      UpdateManifest(loc.manifestBackup, runs, getPackageVersion(fs[PackageSite].aios),
                                     loc.currentVersion)]
          /\ pc' = "Summarize"
          /\ UNCHANGED <<status, exitCode, loc>>
  /\ UNCHANGED <<cmd, runs, pre, prev, hist>>

(* Step 8: print the summary and return *)
UpdateSummarize ==
  /\ pc = "Summarize"
  /\ status' = "ok"
  /\ exitCode' = 0
  /\ pc' = "idle"
  /\ loc' = NoLocals
  /\ UNCHANGED <<fs, cmd, runs, pre, prev, hist>>

----------------------------------------------------------------------------
(* Initial directories *)

TreeOf(paths, present, content) == [p \in paths |-> IF p \in present THEN content ELSE Absent]

(* claude-config/ of the package: missing, complete, or without hooks/ and    *)
(* CLAUDE.md and holding local-only settings files                            *)
PackageClaudeConfig(variant) ==
  CASE variant = "full" ->
         TreeOf(ClaudePaths, { <<"commands", "a.md">>, <<"rules", "r.md">>, <<"hooks", "h.js">>,
                               <<"settings.json">>, <<"CLAUDE.md">> }, "pkg")
    [] variant = "partial" ->
         TreeOf(ClaudePaths, { <<"commands", "a.md">>, <<"rules", "settings.local.json">>,
                               <<"settings.json">>, <<"settings.local.json">> }, "pkg")
    [] OTHER -> EmptyTree(ClaudePaths)

PackageAios(shipsCfg, packageJson, variant) ==
  [p \in AiosPaths |->
     IF TopLevel(p) = "claude-config" THEN PackageClaudeConfig(variant)[Tail(p)]
     ELSE IF p \in ConfigPaths THEN (IF shipsCfg THEN "pkg" ELSE Absent)
     ELSE IF p = <<"package.json">> THEN packageJson
     ELSE "pkg"]

HubClaude(present) ==
  IF present
  THEN TreeOf(ClaudePaths, { <<"commands", "a.md">>, <<"commands", "settings.local.json">>,
                             <<"hooks", "h.js">>, <<"settings.json">>, <<"CLAUDE.md">>,
                             <<"settings.local.json">> }, "hub")
  ELSE EmptyTree(ClaudePaths)

ProjectAios(installed, core, local) ==
  [p \in AiosPaths |->
     IF ~installed THEN Absent
     ELSE IF p = <<"core-config.yaml">> THEN core
     ELSE IF p = <<"local-config.yaml">> THEN local
     ELSE IF p = <<"package.json">> THEN "1.0.0"
     ELSE IF p = <<"agents", "dev.md">> THEN "old"
     ELSE Absent]

NoClaudeDir == "<nodir>"

ProjectClaude(claudeMd) ==
  [p \in ClaudePaths |->
     IF claudeMd = NoClaudeDir THEN Absent
     ELSE IF p = ClaudeMdPath THEN claudeMd
     ELSE IF p = SettingsLocalPath THEN "loc"
     ELSE IF p \in { <<"commands", "a.md">>, <<"commands", "old.md">>, <<"hooks", "h.js">>, <<"settings.json">> }
          THEN "old"
     ELSE Absent]

InstalledManifest == InstallManifest(0, "1.0.0", FALSE, FALSE)

InitialManifests ==
  { NoManifest, RawManifest("empty"), RawManifest("garbage"), InstalledManifest,
    [InstalledManifest EXCEPT !.keys = @ \ {"installed_at"}],
    [InstalledManifest EXCEPT !.keys = @ \ {"version"}, !.version = ""] }

Scenario(shipsCfg, packageJson, variant, hubClaude, installed, core, local, manifest, claudeMd) ==
  [hub |-> SiteRec(TRUE, PackageAios(shipsCfg, packageJson, variant), NoManifest, variant # "none",
                   hubClaude, HubClaude(hubClaude)),
   project |-> SiteRec(installed, ProjectAios(installed, core, local), manifest, FALSE,
                       claudeMd # NoClaudeDir, ProjectClaude(claudeMd))]

PackageJsons == {"1.2.0", "{}"}

Variants == {"none", "full", "partial"}

(* An installed project whose local configs and manifest vary *)
ConfigScenarios ==
  { Scenario(shipsCfg, pj, "full", FALSE, TRUE, core, local, m, "loc") :
      shipsCfg \in BOOLEAN, pj \in PackageJsons, core \in {Absent, "loc"}, local \in {Absent, "loc"},
      m \in InitialManifests }

(* An installed project whose .claude/ varies against the package's claude-config/ *)
ClaudeScenarios ==
  { Scenario(TRUE, "1.2.0", v, hubClaude, TRUE, "loc", "loc", InstalledManifest, md) :
      v \in Variants, hubClaude \in BOOLEAN, md \in {NoClaudeDir, Absent, Empty, "pkg", "loc"} }

(* A project without .aios-core/ *)
FreshScenarios ==
  { Scenario(TRUE, pj, v, hubClaude, FALSE, Absent, Absent, NoManifest, md) :
      pj \in PackageJsons, v \in Variants, hubClaude \in BOOLEAN, md \in {NoClaudeDir, "loc"} }

Init ==
  /\ fs \in ConfigScenarios \cup ClaudeScenarios \cup FreshScenarios
  /\ pc = "idle"
  /\ cmd = NoCmd
  /\ status = "none"
  /\ exitCode = -1
  /\ runs = 0
  /\ loc = NoLocals
  /\ pre = fs
  /\ prev = Summary(NoCmd, "none", NoManifest)
  /\ hist = [wroteNeverSync |-> FALSE, readNeverSync |-> FALSE]

DepsOutcomes == {"skip", "ok", "fail"}

Next ==
  \/ \E cwd \in Sites : SyncAction(cwd)
  \/ \E cwd \in Sites, force \in BOOLEAN, deps \in DepsOutcomes : InstallAction(cwd, force, deps)
  \/ \E force \in BOOLEAN : UpdateVerify("project", force)
  \/ UpdateBackup
  \/ UpdateSync
  \/ UpdateRestore
  \/ UpdateWriteManifest
  \/ UpdateSummarize

Spec == Init /\ [][Next]_vars

(* A read, copy or write of steps 3 to 7 fails: fs-extra or fs throws, the   *)
(* rejection reaches run().  What the step wrote before failing is not       *)
(* undone; the failure is taken at the start of the step.                    *)
UpdateIoFailure ==
  /\ pc \in {"Backup", "Sync", "Restore", "WriteManifest"}
  /\ Fatal
  /\ UNCHANGED <<fs, cmd, runs, pre, prev, hist>>

NextIo ==
  \/ Next
  \/ UpdateIoFailure

(* Directories for the runs of update: every kind of manifest, of .claude/   *)
(* and of package, and a project that is not installed                      *)
StepScenarios ==
  ClaudeScenarios \cup FreshScenarios \cup
  { Scenario(TRUE, "1.2.0", "full", FALSE, TRUE, "loc", "loc", m, "loc") : m \in InitialManifests }

FairInit == Init /\ fs \in StepScenarios

(* The handler is one sequence of awaited calls: a step that can run does run *)
FairSpec ==
  /\ FairInit
  /\ [][NextIo]_vars
  /\ WF_vars(UpdateBackup)
  /\ WF_vars(UpdateSync)
  /\ WF_vars(UpdateRestore)
  /\ WF_vars(UpdateWriteManifest)
  /\ WF_vars(UpdateSummarize)

TypeOK ==
  /\ pc \in {"idle", "Backup", "Sync", "Restore", "WriteManifest", "Summarize"}
  /\ status \in {"none", "running", "ok", "precondition", "fatal"}
  /\ runs \in 0..MaxRuns
  /\ \A s \in Sites : /\ DOMAIN fs[s].aios = AiosPaths
                      /\ DOMAIN fs[s].claude = ClaudePaths
                      /\ (~fs[s].aiosDir => \A p \in AiosPaths : fs[s].aios[p] = Absent)
                      /\ (~fs[s].aiosDir => ~ManifestExists(fs[s].manifest))
                      /\ (~fs[s].claudeDir => \A p \in ClaudePaths : fs[s].claude[p] = Absent)
                      /\ (~fs[s].ccDir => \A p \in ClaudeConfigPaths : fs[s].aios[p] = Absent)

----------------------------------------------------------------------------
(* Properties *)

(* The command named has returned normally *)
Completed(name) == pc = "idle" /\ cmd.name = name /\ status = "ok"

(* The working directory of the last command, now and when the command began *)
Target == fs[cmd.cwd]

Before == pre[cmd.cwd]

Package == fs[PackageSite]

PackageConfig == ClaudeConfigOf(Package.aios)

CatalogSet == { Catalogs[i] : i \in 1..Len(Catalogs) }

C2_InstallNoForcePreserves ==
  (pc = "idle" /\ cmd.name = "install" /\ ~cmd.force) =>
    /\ \A p \in AiosPaths : Before.aios[p] # Absent => Target.aios[p] = Before.aios[p]
    /\ \A p \in ClaudePaths : Before.claude[p] # Absent => Target.claude[p] = Before.claude[p]
    /\ ManifestExists(Before.manifest) => Target.manifest = Before.manifest
    /\ Before.aiosDir => (exitCode = 1 /\ fs = pre)
    /\ (status = "ok" /\ Before.claudeDir /\ Package.ccDir) =>
          \A p \in ClaudePaths :
             Target.claude[p] = IF Before.claude[p] # Absent THEN Before.claude[p] ELSE PackageConfig[p]

C2_Witness ==
  /\ Completed("install")
  /\ ~cmd.force
  /\ Before.claudeDir
  /\ Before.claude[ClaudeMdPath] = "loc"
  /\ PackageConfig[ClaudeMdPath] = "pkg"
  /\ Target.claude[ClaudeMdPath] = "loc"
  /\ Before.claude[<<"rules", "r.md">>] = Absent
  /\ Target.claude[<<"rules", "r.md">>] = "pkg"

(* C3 as stated: after update completes, no file of .claude/commands,         *)
(* .claude/rules or .claude/hooks is absent from the package's catalog.       *)
C3_Original ==
  Completed("update") =>
    \A p \in ClaudePaths :
      (TopLevel(p) \in CatalogSet /\ Target.claude[p] # Absent) => PackageConfig[p] # Absent

(* C4 as stated: the manifest written by the second of two successive updates *)
(* differs from the first's only in updated_at.                               *)
C4_Original ==
  (Completed("update") /\ prev.name = "update" /\ prev.status = "ok") =>
    [Target.manifest EXCEPT !.updated_at = 0] = [prev.manifest EXCEPT !.updated_at = 0]

(* C4 amended: the second manifest differs from the first only in updated_at  *)
(* and previous_version, and its previous_version is the first's version.     *)
C4_SecondUpdateManifest ==
  (Completed("update") /\ prev.name = "update" /\ prev.status = "ok") =>
    /\ [Target.manifest EXCEPT !.updated_at = 0, !.previous_version = ""]
         = [prev.manifest EXCEPT !.updated_at = 0, !.previous_version = ""]
    /\ Target.manifest.previous_version = prev.manifest.version

C4_Witness ==
  /\ Completed("update")
  /\ prev.name = "update"
  /\ prev.status = "ok"
  /\ prev.manifest.previous_version = "1.0.0"
  /\ Target.manifest.previous_version = "1.2.0"
  /\ Target.manifest.installed_at = 0
  /\ Target.manifest.updated_at # prev.manifest.updated_at

(* C5: a completed update writes a manifest whose version is the package's    *)
(* version and whose previous_version is the version of the manifest that was *)
(* on disk, or "unknown" when that manifest was missing or gave no version.   *)
C5_VersionAndPrevious ==
  Completed("update") =>
    /\ Target.manifest.kind = "map"
    /\ {"version", "previous_version"} \subseteq Target.manifest.keys
    /\ Package.aios[<<"package.json">>] = "1.2.0" => Target.manifest.version = "1.2.0"
    /\ Target.manifest.previous_version =
         IF Before.manifest.kind = "map" /\ "version" \in Before.manifest.keys
         THEN Before.manifest.version
         ELSE "unknown"

C5_Witness ==
  /\ Completed("update")
  /\ Before.manifest.kind = "map"
  /\ Before.manifest.version = "1.0.0"
  /\ Target.manifest.version = "1.2.0"
  /\ Target.manifest.previous_version = "1.0.0"

(* The precondition of the last command did not hold when it began *)
PreconditionFailed ==
  \/ cmd.name = "update" /\ ~Before.aiosDir
  \/ cmd.name = "sync" /\ (~Before.claudeDir \/ ~Before.aiosDir)
  \/ cmd.name = "install" /\ cmd.cwd = PackageSite

(* C6: a command whose precondition fails exits non-zero and writes nothing. *)
C6_PreconditionFailureWritesNothing ==
  PreconditionFailed => (pc = "idle" /\ exitCode = 1 /\ fs = pre)

C6_Witness ==
  /\ cmd.name = "install"
  /\ cmd.cwd = PackageSite
  /\ cmd.force
  /\ exitCode = 1
  /\ prev.name = "update"
  /\ prev.status = "precondition"

(* C7 as stated: no command writes settings.local.json into                 *)
(* .aios-core/claude-config/ or copies it from there into .claude/, and      *)
(* after a completed sync none lies anywhere under claude-config/.           *)
C7_Original ==
  /\ ~hist.wroteNeverSync
  /\ ~hist.readNeverSync
  /\ Completed("sync") =>
       \A p \in ClaudePaths : Basename(p) \in NEVER_SYNC => ClaudeConfigOf(Target.aios)[p] = Absent

(* The last command began in a directory with neither .aios-core/ nor .claude/ *)
EmptyTarget == ~Before.aiosDir /\ ~Before.claudeDir

(* C8 as stated: a completed install on an empty target leaves .aios-core/,  *)
(* .claude/ and a manifest with the package's version, installed_at set and  *)
(* no previous_version key.                                                  *)
C8_Original ==
  (Completed("install") /\ EmptyTarget) =>
    /\ Target.aiosDir
    /\ Target.claudeDir
    /\ Target.manifest.version = getPackageVersion(Package.aios)
    /\ "installed_at" \in Target.manifest.keys
    /\ "previous_version" \notin Target.manifest.keys

(* C8 amended: .claude/ is created exactly when the package has a            *)
(* claude-config/ directory; the rest as stated.                             *)
C8_FreshInstall ==
  (Completed("install") /\ EmptyTarget) =>
    /\ Target.aiosDir
    /\ Target.claudeDir <=> Package.ccDir
    /\ Target.manifest.kind = "map"
    /\ Package.aios[<<"package.json">>] = "1.2.0" => Target.manifest.version = "1.2.0"
    /\ "version" \in Target.manifest.keys
    /\ "installed_at" \in Target.manifest.keys
    /\ Target.manifest.installed_at = runs
    /\ "previous_version" \notin Target.manifest.keys

C8_Witness ==
  /\ Completed("install")
  /\ EmptyTarget
  /\ Target.claudeDir
  /\ Target.claude[ClaudeMdPath] = "pkg"
  /\ Target.aios[<<"agents", "dev.md">>] = "pkg"
  /\ Target.manifest.version = "1.2.0"

(* C9 as stated: after update --force completes, every local-configuration  *)
(* file the package ships has the package's content in the target.          *)
C9_Original ==
  (Completed("update") /\ cmd.force) =>
    \A p \in ConfigPaths : Package.aios[p] # Absent => Target.aios[p] = Package.aios[p]

(* C10 as stated: with a packaged template, update overwrites .claude/CLAUDE.md *)
(* exactly when no local copy existed, the local copy equalled the template, *)
(* or --force was given; otherwise the local copy is as it was.              *)
C10_Original ==
  (Completed("update") /\ Package.ccDir /\ PackageConfig[ClaudeMdPath] # Absent) =>
    IF \/ Before.claude[ClaudeMdPath] = Absent
       \/ Before.claude[ClaudeMdPath] = PackageConfig[ClaudeMdPath]
       \/ cmd.force
    THEN Target.claude[ClaudeMdPath] = PackageConfig[ClaudeMdPath]
    ELSE Target.claude[ClaudeMdPath] = Before.claude[ClaudeMdPath]

(* C11 as stated: whatever the previous manifest file was (absent, empty,      *)
(* with or without installed_at, unparseable), an update of an installed      *)
(* target writes a manifest whose installed_at is the previous value when    *)
(* there is one and the current time otherwise, and whose updated_at is the  *)
(* current time.                                                             *)
C11_Original ==
  (pc = "idle" /\ cmd.name = "update" /\ Before.aiosDir) =>
    /\ status = "ok"
    /\ Target.manifest.kind = "map"
    /\ {"installed_at", "updated_at"} \subseteq Target.manifest.keys
    /\ Target.manifest.installed_at =
         IF Before.manifest.kind = "map" /\ "installed_at" \in Before.manifest.keys
         THEN Before.manifest.installed_at
         ELSE runs
    /\ Target.manifest.updated_at = runs

(* The last command is an install or an update, whose framework copy is done *)
(* or was never reached                                                      *)
FrameworkCopyDone ==
  /\ cmd.name \in {"install", "update"}
  /\ pc \notin {"Backup", "Sync"}

(* The file at p of the target's .aios-core/ was not put there by the        *)
(* framework copy: it is as it was, or npm install wrote it.                 *)
NotCopied(p) == Target.aios[p] = Before.aios[p] \/ Target.aios[p] = "npm"

(* C12 as stated: after the framework copy of install or update, no entry    *)
(* whose basename is in COPY_EXCLUDE, at any depth of the package tree, has  *)
(* been copied from the package into the target's .aios-core/.               *)
C12_Original ==
  FrameworkCopyDone =>
    \A p \in AiosPaths :
      (\E q \in Prefixes(p) : Basename(q) \in COPY_EXCLUDE) => NotCopied(p)

(* C12 amended: no entry whose top-level segment, relative to the package    *)
(* root, is in COPY_EXCLUDE has been copied, nor anything below it; an entry *)
(* with such a basename deeper in the tree is copied like any other file.    *)
C12_TopLevelExcluded ==
  FrameworkCopyDone =>
    /\ \A p \in AiosPaths : TopLevel(p) \in COPY_EXCLUDE => NotCopied(p)
    /\ (cmd.cwd # PackageSite /\ status \in {"running", "ok"} /\ (cmd.name = "update" \/ ~Before.aiosDir)) =>
         \A p \in AiosPaths :
           (Len(p) > 1 /\ TopLevel(p) \notin COPY_EXCLUDE /\ Package.aios[p] # Absent) =>
             Target.aios[p] = Package.aios[p]

C12_Witness ==
  /\ cmd.name = "update"
  /\ pc = "Restore"
  /\ Package.aios[<<"node_modules", "m.js">>] = "pkg"
  /\ Target.aios[<<"node_modules", "m.js">>] = Absent
  /\ Package.aios[<<"claude-config", "commands", "a.md">>] = "pkg"
  /\ Target.aios[<<"claude-config", "commands", "a.md">>] = Absent
  /\ Before.aios[<<"lib", ".DS_Store">>] = Absent
  /\ Target.aios[<<"lib", ".DS_Store">>] = "pkg"
  /\ Before.aios[<<"agents", "dev.md">>] = "old"
  /\ Target.aios[<<"agents", "dev.md">>] = "pkg"

(* The step that follows a step of update, by the position reached *)
StepAfter(p) ==
  CASE p = "Backup" -> "Sync"
    [] p = "Sync" -> "Restore"
    [] p = "Restore" -> "WriteManifest"
    [] p = "WriteManifest" -> "Summarize"
    [] OTHER -> "idle"

(* VerifyPreconditions either hands over to Backup or ends the run with exit 1 *)
UpdateBegins ==
  \/ pc' = "Backup" /\ status' = "running"
  \/ pc' = "idle" /\ status' = "precondition" /\ exitCode' = 1 /\ fs' = fs

(* A running update moves to the next step, returns from Summarize, or goes  *)
(* to Fatal: exit 1, nothing further executed, nothing on disk touched       *)
UpdateAdvances ==
  \/ pc # "Summarize" /\ pc' = StepAfter(pc) /\ status' = "running" /\ cmd' = cmd /\ runs' = runs
  \/ pc = "Summarize" /\ pc' = "idle" /\ status' = "ok" /\ exitCode' = 0 /\ fs' = fs
  \/ pc' = "idle" /\ status' = "fatal" /\ exitCode' = 1 /\ fs' = fs /\ cmd' = cmd /\ runs' = runs

(* C13: every run of update goes through VerifyPreconditions, Backup, Sync,  *)
(* Restore, WriteManifest, Summarize in this order, no step twice; a failing *)
(* step leads directly to the terminal Fatal state (exit 1, no later step,   *)
(* no cleanup); every run ends in Summarize or in Fatal.                     *)
C13_UpdateStateMachine ==
  /\ [][ /\ (pc = "idle" /\ cmd'.name = "update") => UpdateBegins
         /\ pc # "idle" => (cmd.name = "update" /\ UpdateAdvances)
         /\ pc = "idle" => runs' = runs + 1 ]_vars
  /\ (pc # "idle") ~> (pc = "idle" /\ cmd.name = "update" /\ status \in {"ok", "fatal"})

C13_Witness ==
  /\ pc = "idle"
  /\ cmd.name = "update"
  /\ status = "fatal"
  /\ exitCode = 1
  /\ fs # pre
  /\ Before.aios[<<"agents", "dev.md">>] = "old"
  /\ Target.aios[<<"agents", "dev.md">>] = "pkg"
  /\ Target.manifest = Before.manifest

====
